---- MODULE Spec2Model ----
(***************************************************************************)
(* Model of the index-creation custom resource of rag-demo-cdk: the Python *)
(* Lambda handler and create_opensearch_index() that are inlined in        *)
(* lib/stacks/application-stack.ts ("app"); the Lambda of                  *)
(* lib/stacks/infrastructure-stack.ts ("infra"), whose inline module does  *)
(* not compile; and of the CloudFormation resource graph of the            *)
(* infrastructure stack around it; and of the S3 buckets                    *)
(* of the storage and frontend stacks with their removal policies          *)
(* (lib/utils/helpers.ts getRemovalPolicy); and of scripts/deploy.sh, which *)
(* deploys the stacks of bin/rag-demo-cdk.ts one after the other; and of    *)
(* the post-deployment Lambda of application-stack.ts ("app") and of the   *)
(* older infrastructure stack ("old").                                     *)
(*                                                                         *)
(* Time is counted in whole seconds since start_time.  Every HTTP request  *)
(* to the collection takes a latency drawn from Latencies and is answered  *)
(* with a status or raises a transport exception.                          *)
(*                                                                         *)
(* The inline Python of the infra variant is indented irregularly: the     *)
(* "else:" of its 403 branches (lines 900, 939) and its "except Exception" *)
(* (line 949) match no open block, so importing the module raises          *)
(* IndentationError.  The Lambda runtime then fails every invocation       *)
(* before handler() is defined: nothing is sent to the collection and      *)
(* nothing to the ResponseURL.  The operators of the retry loop below are  *)
(* those of the app variant, the only one that runs.                       *)
(*                                                                         *)
(* ApplicationStack cannot be synthesized from this source: its            *)
(* constructor hands KnowledgeBaseConstruct the plain object of            *)
(* createVectorDatabaseReference, on which getAccessPolicyStatements() is  *)
(* not a function, and throws at line 77.                                  *)
(***************************************************************************)
EXTENDS Integers, Sequences, FiniteSets, TLC

VARIABLES
  variant,        \* "infra" | "app": which stack's Lambda is deployed
  requestType,    \* event['RequestType'] of the current invocation
  run,            \* number of the current invocation (1..MaxRuns)
  pc,             \* position of the invocation
  attempt,        \* loop variable of "for attempt in range(max_retries)"
  elapsed,        \* time.time() - start_time, in seconds
  delay,          \* argument of the pending time.sleep(delay)
  sleepKind,      \* "403" | "exc": the branch that computed delay
  raised,         \* how create_opensearch_index ended: "none" | "ValueError" | "Exception" | "-"
  status,         \* the handler's local variable status
  sent,           \* number of calls of send_response in this invocation
  delivered,      \* Status that reached the ResponseURL, or "none"
  escaped,        \* an exception left the handler
  indexExists,    \* the collection holds the index
  existedAtStart, \* indexExists when the invocation began
  lastReq,        \* kind of the last request sent to the collection
  lastStatus,     \* its answer
  nHealth, nHead, nPut,   \* requests sent in this invocation, by kind
  nPutOk,         \* creation PUTs answered 200/201 in this invocation
  nSleeps,        \* calls of time.sleep in this invocation
  definitive,     \* an index HEAD returned 200 or a PUT returned 200/201
  lateRequests,   \* requests sent after definitive became true
  saw403,         \* some answer in this invocation was 403
  sawErr,         \* some answer was an error status (400, 500) or an exception
  sawPlain,       \* some answer was 200, 201 or 404
  createdBy,      \* number of the invocation whose PUT created the index, or 0
  attemptReqs,    \* requests sent so far in the current attempt
  slept,          \* total of the delays slept in this invocation
  res,            \* deployment: status of each followed resource and group of the stack
  stackState,     \* deployment: "CREATE_IN_PROGRESS" | "CREATE_COMPLETE" | "ROLLBACK"
  environment,    \* config.environment
  enableReplication, \* config.enableReplication && config.backupRegion
  stacks,         \* storage: state of the stacks that declare buckets
  bucket,         \* storage: state and number of objects of each bucket
  uploaded,       \* storage: number of objects ever put into each bucket
  step,           \* deploy.sh: the function of main that runs next, or "exited"
  exitCode,       \* deploy.sh: exit status (1 stands for any non-zero status), -1 while running
  cdkLog,         \* deploy.sh: stacks "cdk deploy" was run on, in order
  deployedOk,     \* deploy.sh: stacks whose deployment step finished successfully
  storageExisted, \* deploy.sh: the storage stack existed when the script started
  describeFound,  \* deploy.sh: describe-stacks on the storage stack: "found" | "failed" ("-" before)
  reply,          \* deploy.sh: $REPLY of "Continue with existing storage?" ("-" if not asked)
  nameKnown,      \* deploy.sh: COLLECTION_NAME was found in the outputs ("-" before)
  polls,          \* deploy.sh: calls of list-collections so far
  waitElapsed,    \* deploy.sh: ELAPSED of wait_for_foundation_resources
  collStatus,     \* deploy.sh: STATUS of the last poll
  failedStep,     \* deploy.sh: the step that ended the script with a non-zero status, or "none"
  failed,         \* deploy.sh: the commands that were run and returned a non-zero status
  finished,       \* deploy.sh: the functions that returned to their caller
  postVariant,    \* post-deployment: "old" | "app", the stack that declares the Lambda
  postRequest,    \* post-deployment: event['RequestType']
  postRun,        \* post-deployment: number of the invocation
  postPc,         \* post-deployment: "handler", the function that runs next, or "return"
  postStatus,     \* post-deployment: Status of the returned dictionary ("-" before)
  failedCalls,    \* post-deployment: functions in which an exception was raised
  postIndexExists \* post-deployment: the collection holds the index

lambdaVars == << variant, requestType, run, pc, attempt, elapsed, delay, sleepKind,
                 raised, status, sent, delivered, escaped, indexExists,
                 existedAtStart, lastReq, lastStatus, nHealth, nHead, nPut, nPutOk,
                 nSleeps, definitive, lateRequests, saw403, sawErr, sawPlain, createdBy, attemptReqs, slept >>
storageVars == << environment, enableReplication, stacks, bucket, uploaded >>
scriptVars == << step, exitCode, cdkLog, deployedOk, storageExisted, describeFound,
                 reply, nameKnown, polls, waitElapsed, collStatus, failedStep,
                 failed, finished >>
postVars == << postVariant, postRequest, postRun, postPc, postStatus, failedCalls,
               postIndexExists >>
deployVars == << res, stackState, storageVars, scriptVars, postVars >>
vars == << lambdaVars, deployVars >>

----------------------------------------------------------------------------
(* Bounds of the model *)

\* Latencies are 0 .. MaxLatencySteps multiples of LatencyStep seconds.
MaxLatencySteps == 2
\* Invocations of the Lambda against the same collection.
MaxRuns == 2
\* objects put into one bucket
MaxObjects == 2
\* words on the command line of deploy.sh
MaxArgs == 4

----------------------------------------------------------------------------
(* Constants of the code *)

Variants == {"infra", "app"}
RequestTypes == {"Create", "Delete", "Update", "Other"}

\* grain of request latency in seconds: the smallest delay of the 403
\* branches, max(30, ...), so that latencies and delays share one grid
LatencyStep == 30
Latencies == { k * LatencyStep : k \in 0..MaxLatencySteps }

max_execution_time == 13 * 60
max_retries == 5
base_delay == 90
\* "if time_remaining() < 120" and "delay + 120": the 2-minute buffer
safety_margin == 120
\* increment per attempt in the 403 branches and in the exception branch
step_403 == 45
step_exc == 30
\* floor of a reduced delay: max(30, ...) and max(15, ...)
min_delay_403 == 30
min_delay_exc == 15

Max(a, b) == IF a >= b THEN a ELSE b

time_remaining(e) == max_execution_time - e

\* Variant of ReduceDelay: the delay is cut as soon as twice the margin is short
ReduceDelayEarly(e, nominal, floor) ==
  IF time_remaining(e) < nominal + 2 * safety_margin
  THEN Max(floor, time_remaining(e) - safety_margin)
  ELSE nominal

\* "if time_remaining() < delay + 120: delay = max(floor, time_remaining() - 120)"
ReduceDelay(e, nominal, floor) ==
  IF time_remaining(e) < nominal + safety_margin
  THEN Max(floor, time_remaining(e) - safety_margin)
  ELSE nominal

\* Variant of Delay403: the delay does not grow with the attempt
Delay403Constant(a, e) == ReduceDelay(e, base_delay, min_delay_403)

Delay403(a, e) == ReduceDelay(e, base_delay + a * step_403, min_delay_403)
\* Variant of DelayExc: the exception branch waits as long as the 403 branches
DelayExcFull(a, e) == ReduceDelay(e, base_delay + a * step_exc, min_delay_exc)

DelayExc(a, e) == ReduceDelay(e, (base_delay \div 2) + a * step_exc, min_delay_exc)

MinDelay(kind) == IF kind = "403" THEN min_delay_403 ELSE min_delay_exc

----------------------------------------------------------------------------
(* Outcomes of one step of the retry loop *)

DoReturn == [act |-> "return"]
DoRaise(x) == [act |-> "raise", exc |-> x]
DoSleep(d, k) == [act |-> "sleep", delay |-> d, kind |-> k]
DoGoto(p) == [act |-> "goto", pc |-> p]

\* Variant of ExceptBranch: the last attempt sleeps too ("attempt < max_retries")
ExceptBranchOffByOne(a, e, x) ==
  IF a < max_retries
  THEN DoSleep(DelayExc(a, e), "exc")
  ELSE DoRaise(x)

\* "except Exception as e:" of the retry loop
ExceptBranch(a, e, x) ==
  IF a < max_retries - 1
  THEN DoSleep(DelayExc(a, e), "exc")
  ELSE DoRaise(x)

\* A ValueError raised inside the try of the retry loop: the only handler is
\* "except Exception", which takes it like any other exception.
OnValueError(a, e) == ExceptBranch(a, e, "ValueError")

\* A transport exception raised by http.request / http.urlopen
OnTransportError(a, e) == ExceptBranch(a, e, "Exception")

\* The 403 branches (health check, PUT)
On403(a, e) ==
  IF a < max_retries - 1
  THEN DoSleep(Delay403(a, e), "403")
  ELSE OnValueError(a, e)

\* Variant of OnHealth: an accessible collection is taken for an existing index
OnHealthTakenForIndex(a, e, r) ==
  CASE r = "exc" -> OnTransportError(a, e)
    [] r = "200" -> DoReturn
    [] r = "403" -> On403(a, e)
    [] OTHER     -> OnValueError(a, e)

\* Dispatch on the answer of the collection health check
OnHealth(a, e, r) ==
  CASE r = "exc" -> OnTransportError(a, e)
    [] r = "200" -> DoGoto("head")
    [] r = "403" -> On403(a, e)
    [] OTHER     -> OnValueError(a, e)

\* Dispatch on the answer of HEAD {endpoint}/{index}
OnHead(a, e, r) ==
  CASE r = "exc" -> OnTransportError(a, e)
    [] r = "200" -> DoReturn
    [] OTHER     -> DoGoto("put")

\* Variant of OnPut: a denied creation is retried at once, in the same attempt
OnPutImmediateRetry(a, e, r) ==
  CASE r = "exc" -> OnTransportError(a, e)
    [] r \in {"200", "201"} -> DoReturn
    [] r = "403" -> DoGoto("head")
    [] OTHER     -> OnValueError(a, e)

\* Variant of OnPut: a successful creation is followed by another attempt
OnPutRetriesAfterSuccess(a, e, r) ==
  CASE r = "exc" -> OnTransportError(a, e)
    [] r \in {"200", "201", "403"} -> On403(a, e)
    [] OTHER     -> OnValueError(a, e)

\* Dispatch on the answer of PUT {endpoint}/{index}
OnPut(a, e, r) ==
  CASE r = "exc" -> OnTransportError(a, e)
    [] r \in {"200", "201"} -> DoReturn
    [] r = "403" -> On403(a, e)
    [] OTHER     -> OnValueError(a, e)

\* Variant of OnLoopTop: without the timeout protection
OnLoopTopNoDeadline(a, e) ==
  IF a >= max_retries
  THEN DoRaise("ValueError")
  ELSE DoGoto("health")

\* Variant of OnLoopTop: a retry goes straight to the creation PUT
OnLoopTopSkipsCheck(a, e) ==
  IF a >= max_retries
  THEN DoRaise("ValueError")
  ELSE IF time_remaining(e) < safety_margin
       THEN DoRaise("ValueError")
       ELSE DoGoto(IF a > 0 THEN "put" ELSE "health")

\* Top of the loop body: the timeout protection, raised outside the try
OnLoopTop(a, e) ==
  IF a >= max_retries
  THEN DoRaise("ValueError")
  ELSE IF time_remaining(e) < safety_margin
       THEN DoRaise("ValueError")
       ELSE DoGoto("health")

----------------------------------------------------------------------------
(* The handler *)

\* "except Exception as e:" of the handler
HandlerCatches(x) == x \in {"ValueError", "Exception"}

\* status chosen by the handler for a request that is not Create
StatusNoAction(rt) == "SUCCESS"

\* the handler guards send_response with its own try/except
HandlerGuardsResponse == TRUE

\* Control part of a step of create_opensearch_index with outcome o
Continue(o) ==
  CASE o.act = "goto" ->
         /\ pc' = o.pc
         /\ UNCHANGED << delay, sleepKind, raised, status, escaped >>
    [] o.act = "sleep" ->
         /\ pc' = "sleep"
         /\ delay' = o.delay
         /\ sleepKind' = o.kind
         /\ UNCHANGED << raised, status, escaped >>
    [] o.act = "return" ->
         /\ pc' = "respond"
         /\ raised' = "none"
         /\ status' = "SUCCESS"
         /\ UNCHANGED << delay, sleepKind, escaped >>
    [] o.act = "raise" ->
         /\ pc' = "respond"
         /\ raised' = o.exc
         /\ status' = "FAILED"
         /\ escaped' = ~HandlerCatches(o.exc)
         /\ UNCHANGED << delay, sleepKind >>

\* Bookkeeping of one request of kind q answered r after latency l
Observe(q, r, l) ==
  /\ elapsed' = elapsed + l
  /\ lastReq' = q
  /\ attemptReqs' = attemptReqs + 1
  /\ lastStatus' = r
  /\ saw403' = (saw403 \/ r = "403")
  /\ sawErr' = (sawErr \/ r \in {"400", "500", "exc"})
  /\ sawPlain' = (sawPlain \/ r \in {"200", "201", "404"})
  /\ lateRequests' = lateRequests + (IF definitive THEN 1 ELSE 0)
  /\ definitive' = (definitive \/ (q = "head" /\ r = "200")
                               \/ (q = "put" /\ r \in {"200", "201"}))

\* Variant of CallsCreate: an Update also runs the index creation
CallsCreateOnUpdate(rt) == rt \in {"Create", "Update"}

\* "if request_type == 'Create':" the only branch that calls create_opensearch_index
CallsCreate(rt) == rt = "Create"

\* Importing the inline module succeeds: the module of infra raises
\* IndentationError ("unindent does not match any outer indentation level")
ModuleLoads(v) == v = "app"

\* The Lambda runtime imports index.py and calls handler(event, context), up
\* to the call of create_opensearch_index.  When the import fails the
\* invocation ends with an init error and the handler is never called.
HandlerEntry ==
  /\ pc = "handler"
  /\ IF ~ModuleLoads(variant)
     THEN /\ pc' = "init_error"
          /\ UNCHANGED << delay, sleepKind, raised, status, escaped >>
     ELSE IF CallsCreate(requestType)
     THEN \E credentials \in BOOLEAN :
            Continue(IF credentials THEN DoGoto("loop_top") ELSE DoRaise("ValueError"))
     ELSE /\ pc' = "respond"
          /\ status' = StatusNoAction(requestType)
          /\ UNCHANGED << delay, sleepKind, raised, escaped >>
  /\ UNCHANGED << variant, requestType, run, attempt, elapsed, sent, delivered,
                  indexExists, existedAtStart, lastReq, lastStatus, nHealth, nHead,
                  nPut, nPutOk, nSleeps, definitive, lateRequests, saw403, sawErr, sawPlain, createdBy, attemptReqs, slept >>
  /\ UNCHANGED deployVars

\* "for attempt in range(max_retries):" and the timeout protection
LoopTop ==
  /\ pc = "loop_top"
  /\ Continue(OnLoopTop(attempt, elapsed))
  /\ UNCHANGED << variant, requestType, run, attempt, elapsed, sent, delivered,
                  indexExists, existedAtStart, lastReq, lastStatus, nHealth, nHead,
                  nPut, nPutOk, nSleeps, definitive, lateRequests, saw403, sawErr, sawPlain, createdBy, attemptReqs, slept >>
  /\ UNCHANGED deployVars

\* HEAD {endpoint}/_cluster/health
HealthCheck ==
  /\ pc = "health"
  /\ \E l \in Latencies, r \in {"200", "403", "500", "exc"} :
       /\ Observe("health", r, l)
       /\ Continue(OnHealth(attempt, elapsed + l, r))
  /\ nHealth' = nHealth + 1
  /\ UNCHANGED << variant, requestType, run, attempt, sent, delivered, indexExists,
                  existedAtStart, nHead, nPut, nPutOk, nSleeps, createdBy, slept >>
  /\ UNCHANGED deployVars

\* Answers a collection can give to HEAD {endpoint}/{index}
HeadAnswers == {IF indexExists THEN "200" ELSE "404", "403", "500", "exc"}

\* HEAD {endpoint}/{index}
HeadIndex ==
  /\ pc = "head"
  /\ \E l \in Latencies, r \in HeadAnswers :
       /\ Observe("head", r, l)
       /\ Continue(OnHead(attempt, elapsed + l, r))
  /\ nHead' = nHead + 1
  /\ UNCHANGED << variant, requestType, run, attempt, sent, delivered, indexExists,
                  existedAtStart, nHealth, nPut, nPutOk, nSleeps, createdBy, slept >>
  /\ UNCHANGED deployVars

\* Answers a collection can give to PUT {endpoint}/{index}: it creates the
\* index only when there is none
PutAnswers == (IF indexExists THEN {"400"} ELSE {"200", "201"}) \cup {"403", "500", "exc"}

\* PUT {endpoint}/{index} with the index mapping
PutIndex ==
  /\ pc = "put"
  /\ \E l \in Latencies, r \in PutAnswers :
       /\ Observe("put", r, l)
       /\ Continue(OnPut(attempt, elapsed + l, r))
       /\ indexExists' = (indexExists \/ r \in {"200", "201"})
       /\ nPutOk' = nPutOk + (IF r \in {"200", "201"} THEN 1 ELSE 0)
       /\ createdBy' = (IF r \in {"200", "201"} THEN run ELSE createdBy)
  /\ nPut' = nPut + 1
  /\ UNCHANGED << variant, requestType, run, attempt, sent, delivered,
                  existedAtStart, nHealth, nHead, nSleeps, slept >>
  /\ UNCHANGED deployVars

\* time.sleep(delay); continue
Sleep ==
  /\ pc = "sleep"
  /\ elapsed' = elapsed + delay
  /\ attempt' = attempt + 1
  /\ nSleeps' = nSleeps + 1
  /\ attemptReqs' = 0
  /\ slept' = slept + delay
  /\ pc' = "loop_top"
  /\ UNCHANGED << variant, requestType, run, delay, sleepKind, raised, status, sent,
                  delivered, escaped, indexExists, existedAtStart, lastReq, lastStatus,
                  nHealth, nHead, nPut, nPutOk, definitive, lateRequests, saw403, sawErr, sawPlain, createdBy >>
  /\ UNCHANGED deployVars

\* The finally block of the handler: send_response(event, context, status, ...).
\* how = "ok": the PUT to the ResponseURL went through; "http": it failed inside
\* send_response's own try; "raises": send_response raised (it builds the
\* response body outside its try).
SendResponse ==
  /\ pc = "respond"
  /\ \E how \in {"ok", "http", "raises"} :
       /\ delivered' = (IF how = "ok" THEN status ELSE "none")
       /\ escaped' = (escaped \/ (how = "raises" /\ ~HandlerGuardsResponse))
  /\ sent' = sent + 1
  /\ pc' = "done"
  /\ UNCHANGED << variant, requestType, run, attempt, elapsed, delay, sleepKind, raised,
                  status, indexExists, existedAtStart, lastReq, lastStatus, nHealth,
                  nHead, nPut, nPutOk, nSleeps, definitive, lateRequests, saw403, sawErr, sawPlain, createdBy, attemptReqs, slept >>
  /\ UNCHANGED deployVars

\* Keys of the dictionary the handler passes to send_response as data, for a
\* request of type rt when create_opensearch_index ended as x
response_data(rt, x) == {"Reason"}

\* Keys of response_body, the JSON document send_response puts to the ResponseURL
response_body ==
  {"Status", "Reason", "PhysicalResourceId", "StackId", "RequestId",
   "LogicalResourceId", "Data"}

\* State of a fresh invocation for an event of type rt
Fresh(rt, n, exists) ==
  /\ requestType = rt
  /\ run = n
  /\ pc = "handler"
  /\ attempt = 0
  /\ elapsed = 0
  /\ delay = 0
  /\ sleepKind = "-"
  /\ raised = "-"
  /\ status = "FAILED"
  /\ sent = 0
  /\ delivered = "none"
  /\ escaped = FALSE
  /\ indexExists = exists
  /\ existedAtStart = exists
  /\ lastReq = "-"
  /\ lastStatus = "-"
  /\ nHealth = 0
  /\ nHead = 0
  /\ nPut = 0
  /\ nPutOk = 0
  /\ nSleeps = 0
  /\ definitive = FALSE
  /\ lateRequests = 0
  /\ saw403 = FALSE
  /\ sawErr = FALSE
  /\ sawPlain = FALSE
  /\ createdBy = 0
  /\ attemptReqs = 0
  /\ slept = 0

\* CloudFormation invokes the Lambda again (a later deployment of the stack)
Invoke ==
  /\ pc \in {"done", "init_error"}
  /\ run < MaxRuns
  /\ \E rt \in RequestTypes : requestType' = rt
  /\ run' = run + 1
  /\ pc' = "handler"
  /\ attempt' = 0
  /\ elapsed' = 0
  /\ delay' = 0
  /\ sleepKind' = "-"
  /\ raised' = "-"
  /\ status' = "FAILED"
  /\ sent' = 0
  /\ delivered' = "none"
  /\ escaped' = FALSE
  /\ indexExists' = indexExists
  /\ existedAtStart' = indexExists
  /\ lastReq' = "-"
  /\ lastStatus' = "-"
  /\ nHealth' = 0
  /\ nHead' = 0
  /\ nPut' = 0
  /\ nPutOk' = 0
  /\ nSleeps' = 0
  /\ definitive' = FALSE
  /\ lateRequests' = 0
  /\ saw403' = FALSE
  /\ sawErr' = FALSE
  /\ sawPlain' = FALSE
  /\ createdBy' = createdBy
  /\ attemptReqs' = 0
  /\ slept' = 0
  /\ UNCHANGED variant
  /\ UNCHANGED deployVars

----------------------------------------------------------------------------
(* The buckets: StorageStack declares DocumentsBucket, BackupBucket (with  *)
(* replication) and AccessLogsBucket (prod); FrontendStack declares         *)
(* FrontendBucket, but its constructor throws (see StackSynthesizes), so    *)
(* that this bucket is never created.                                       *)
(* Deleting a stack keeps a bucket whose removal policy is                  *)
(* RETAIN and deletes one whose policy is DESTROY, which fails on a bucket  *)
(* that still holds objects unless autoDeleteObjects empties it first.      *)

Environments == {"dev", "staging", "prod"}
ResourceTypes == {"storage", "infrastructure"}
BucketStacks == {"Storage", "Frontend"}
AllBuckets == {"DocumentsBucket", "BackupBucket", "AccessLogsBucket", "FrontendBucket"}

\* Variant of getRemovalPolicy: decided by the environment alone
getRemovalPolicyByEnvironment(env, resourceType) ==
  IF env = "dev" THEN "DESTROY" ELSE "RETAIN"

\* getRemovalPolicy(config, resourceType) for config.environment = env
getRemovalPolicy(env, resourceType) ==
  IF resourceType = "storage" THEN "RETAIN"
  ELSE CASE env = "dev"     -> "DESTROY"
         [] env = "staging" -> "RETAIN"
         [] env = "prod"    -> "RETAIN"
         [] OTHER           -> "RETAIN"

\* removalPolicy and autoDeleteObjects each bucket is declared with
BucketProps(env, b) ==
  CASE b \in {"DocumentsBucket", "BackupBucket"} ->
         [removalPolicy |-> getRemovalPolicy(env, "storage"), autoDeleteObjects |-> FALSE]
    [] b = "AccessLogsBucket" ->
         [removalPolicy |-> "DESTROY", autoDeleteObjects |-> TRUE]
    [] b = "FrontendBucket" ->
         [removalPolicy |-> getRemovalPolicy(env, "infrastructure"),
          autoDeleteObjects |-> (env = "dev")]

\* buckets a stack declares under the configuration
Buckets(s, env, repl) ==
  IF s = "Storage"
  THEN {"DocumentsBucket"}
         \cup (IF repl THEN {"BackupBucket"} ELSE {})
         \cup (IF env = "prod" THEN {"AccessLogsBucket"} ELSE {})
  ELSE {"FrontendBucket"}

\* the bucket is deleted with its stack
Deletable(env, b, objects) ==
  /\ BucketProps(env, b).removalPolicy = "DESTROY"
  /\ (BucketProps(env, b).autoDeleteObjects \/ objects = 0)

\* the post-deployment Lambda is not invoked
PostIdle ==
  /\ postVariant = "app"
  /\ postRequest = "Create"
  /\ postRun = 0
  /\ postPc = "-"
  /\ postStatus = "-"
  /\ failedCalls = {}
  /\ postIndexExists = FALSE

\* deploy.sh is not running
ScriptIdle ==
  /\ step = "-"
  /\ exitCode = -1
  /\ cdkLog = << >>
  /\ deployedOk = {}
  /\ storageExisted = FALSE
  /\ describeFound = "-"
  /\ reply = "-"
  /\ nameKnown = "-"
  /\ polls = 0
  /\ waitElapsed = 0
  /\ collStatus = "-"
  /\ failedStep = "none"
  /\ failed = {}
  /\ finished = {}

\* no bucket stack is modelled
StorageIdle ==
  /\ environment = "dev"
  /\ enableReplication = FALSE
  /\ stacks = << >>
  /\ bucket = << >>
  /\ uploaded = << >>

\* the constructor of the stack returns: new FrontendStack throws, because
\* createOutputs declares a CfnOutput under the id 'FrontendBucket' that the
\* bucket of createFrontendBucket already has in the same scope, so that the
\* frontend stack has no template and its bucket is never created
StackSynthesizes(s) == s # "Frontend"

\* cdk deploy of a stack that declares buckets; the frontend stack takes the
\* documents bucket of the storage stack as a prop
DeployStack(s) ==
  /\ stacks[s] = "NOT_DEPLOYED"
  /\ StackSynthesizes(s)
  /\ s = "Frontend" => stacks["Storage"] = "DEPLOYED"
  /\ stacks' = [stacks EXCEPT ![s] = "DEPLOYED"]
  /\ bucket' = [b \in AllBuckets |->
                  IF b \in Buckets(s, environment, enableReplication)
                  THEN [state |-> "present", objects |-> 0]
                  ELSE bucket[b]]
  /\ UNCHANGED << environment, enableReplication, uploaded >>
  /\ UNCHANGED << lambdaVars, res, stackState, scriptVars, postVars >>

\* an object is stored in a bucket
PutObject(b) ==
  /\ bucket[b].state = "present"
  /\ uploaded[b] < MaxObjects
  /\ bucket' = [bucket EXCEPT ![b].objects = @ + 1]
  /\ uploaded' = [uploaded EXCEPT ![b] = @ + 1]
  /\ UNCHANGED << environment, enableReplication, stacks >>
  /\ UNCHANGED << lambdaVars, res, stackState, scriptVars, postVars >>

\* the bucket is declared with a lifecycle rule that has an expiration: the
\* access logs bucket (LogsRetention, 90 days).  The rules of the documents
\* and backup buckets only move objects to another storage class, abort
\* incomplete uploads and expire noncurrent versions
Expires(b) == b = "AccessLogsBucket"

\* the expiration rule of a bucket deletes one of its objects
ExpireObject(b) ==
  /\ Expires(b)
  /\ bucket[b].state = "present"
  /\ bucket[b].objects > 0
  /\ bucket' = [bucket EXCEPT ![b].objects = @ - 1]
  /\ UNCHANGED << environment, enableReplication, stacks, uploaded >>
  /\ UNCHANGED << lambdaVars, res, stackState, scriptVars, postVars >>

\* cdk destroy of a stack
DestroyStack(s) ==
  /\ stacks[s] \in {"DEPLOYED", "DELETE_FAILED"}
  /\ bucket' = [b \in AllBuckets |->
                  IF /\ b \in Buckets(s, environment, enableReplication)
                     /\ Deletable(environment, b, bucket[b].objects)
                  THEN [state |-> "deleted", objects |-> 0]
                  ELSE bucket[b]]
  /\ stacks' = [stacks EXCEPT ![s] =
                  IF \A b \in Buckets(s, environment, enableReplication) :
                       \/ BucketProps(environment, b).removalPolicy = "RETAIN"
                       \/ Deletable(environment, b, bucket[b].objects)
                  THEN "DELETED" ELSE "DELETE_FAILED"]
  /\ UNCHANGED << environment, enableReplication, uploaded >>
  /\ UNCHANGED << lambdaVars, res, stackState, scriptVars, postVars >>

\* no Lambda invocation is modelled
LambdaIdle ==
  /\ variant = "infra"
  /\ requestType = "Create"
  /\ run = 1
  /\ pc = "idle"
  /\ attempt = 0
  /\ elapsed = 0
  /\ delay = 0
  /\ sleepKind = "-"
  /\ raised = "-"
  /\ status = "FAILED"
  /\ sent = 0
  /\ delivered = "none"
  /\ escaped = FALSE
  /\ indexExists = FALSE
  /\ existedAtStart = FALSE
  /\ lastReq = "-"
  /\ lastStatus = "-"
  /\ nHealth = 0
  /\ nHead = 0
  /\ nPut = 0
  /\ nPutOk = 0
  /\ nSleeps = 0
  /\ definitive = FALSE
  /\ lateRequests = 0
  /\ saw403 = FALSE
  /\ sawErr = FALSE
  /\ sawPlain = FALSE
  /\ createdBy = 0
  /\ attemptReqs = 0
  /\ slept = 0

InitStorage ==
  /\ LambdaIdle
  /\ res = << >>
  /\ stackState = "-"
  /\ ScriptIdle
  /\ PostIdle
  /\ environment \in Environments
  /\ enableReplication \in BOOLEAN
  /\ stacks = [s \in BucketStacks |-> "NOT_DEPLOYED"]
  /\ bucket = [b \in AllBuckets |-> [state |-> "absent", objects |-> 0]]
  /\ uploaded = [b \in AllBuckets |-> 0]

NextStorage ==
  \/ \E s \in BucketStacks : DeployStack(s)
  \/ \E b \in AllBuckets : PutObject(b)
  \/ \E b \in AllBuckets : ExpireObject(b)
  \/ \E s \in BucketStacks : DestroyStack(s)

SpecStorage == InitStorage /\ [][NextStorage]_vars

----------------------------------------------------------------------------
(* scripts/deploy.sh: the usage block and parse_arguments read the command   *)
(* line, then main runs its functions in order under "set -e"; a command    *)
(* that fails outside a condition ends the script with a non-zero status,   *)
(* and "exit n" ends it with status n.                                      *)

StackOrder == << "Core", "Storage", "Foundation", "Application", "Frontend" >>

\* stackX.addDependency(stackY) of the CDK app
StackDependencies(s) ==
  CASE s = "Storage"     -> {"Core"}
    [] s = "Foundation"  -> {"Storage"}
    [] s = "Application" -> {"Foundation"}
    [] s = "Frontend"    -> {"Application"}
    [] OTHER             -> {}

\* The calls of main, in order; wait_for_foundation_resources, which
\* deploy_foundation_stack calls as its last command, follows it
MainOrder ==
  << "print_banner", "validate_inputs", "check_prerequisites", "check_aws_credentials",
     "setup_environment", "install_dependencies", "bootstrap_cdk",
     "deploy_core_stack", "deploy_storage_stack", "deploy_foundation_stack",
     "wait_for_foundation_resources", "deploy_application_stack",
     "wait_for_resources", "seed_initial_data", "trigger_ingestion",
     "deploy_frontend_stack", "display_deployment_info" >>

\* the stack a function runs "cdk deploy" on
StackOf(f) ==
  CASE f = "deploy_core_stack"        -> "Core"
    [] f = "deploy_storage_stack"     -> "Storage"
    [] f = "deploy_foundation_stack"  -> "Foundation"
    [] f = "deploy_application_stack" -> "Application"
    [] f = "deploy_frontend_stack"    -> "Frontend"

\* the command "cdk deploy $STACK ..." of each stack
CdkDeployOf(stack) ==
  CASE stack = "Core"        -> "cdk deploy Core"
    [] stack = "Storage"     -> "cdk deploy Storage"
    [] stack = "Foundation"  -> "cdk deploy Foundation"
    [] stack = "Application" -> "cdk deploy Application"
    [] stack = "Frontend"    -> "cdk deploy Frontend"

\* the function main calls after f, or "exited" after the last one
After(f) ==
  LET i == CHOOSE k \in 1..Len(MainOrder) : MainOrder[k] = f
  IN  IF i = Len(MainOrder) THEN "exited" ELSE MainOrder[i + 1]

\* the function that called f, when it is not main: deploy_foundation_stack
\* calls wait_for_foundation_resources as its last command (line 386)
CalledBy(f) ==
  IF f = "wait_for_foundation_resources" THEN {"deploy_foundation_stack"} ELSE {}

\* f returns, its caller other than main returns with it, and main goes on
Return(f) ==
  /\ step' = After(f)
  /\ exitCode' = (IF After(f) = "exited" THEN 0 ELSE exitCode)
  /\ finished' = finished \cup {f} \cup CalledBy(f)

\* f has run its "cdk deploy" and goes on: deploy_foundation_stack calls
\* wait_for_foundation_resources and has not returned yet, the other
\* functions return (the sleep of wait_for_iam_propagation cannot fail)
GoOn(f) ==
  IF f = "deploy_foundation_stack"
  THEN /\ step' = "wait_for_foundation_resources"
       /\ UNCHANGED << exitCode, finished >>
  ELSE Return(f)

\* the script ends with status code
Exit(code) ==
  /\ step' = "exited"
  /\ exitCode' = code
  /\ UNCHANGED finished

\* Variant of errexit: the script runs without "set -e"
errexitUnset == FALSE

\* "set -e" (line 6): a command that fails ends the script, unless it is the
\* condition of an if, the left side of a pipeline or of a "||" list
errexit == TRUE

\* a command of f failed where "set -e" applies: the script ends with the
\* status of the command (without "set -e" f would go on and return)
Fatal(f) ==
  IF errexit
  THEN /\ Exit(1)
       /\ failedStep' = f
  ELSE /\ GoOn(f)
       /\ UNCHANGED failedStep

\* words of the command line: the options, a region, a valid environment and
\* a word that is neither
ArgTokens == {"--region", "--environment", "--profile", "--help", "-h",
              "us-east-1", "staging", "qa"}

\* command lines of at most MaxArgs words
ArgLists == UNION {[1..n -> ArgTokens] : n \in 0..MaxArgs}

VALID_ENVIRONMENTS == {"dev", "staging", "prod"}

\* [[ "$REGION" =~ ^[a-z]{2}-[a-z]+-[0-9]+$ ]] on the words of ArgTokens
RegionFormat(r) == r = "us-east-1"

\* the while loop of parse_arguments on the remaining words a, REGION and
\* ENVIRONMENT as set so far; exit is the status the loop ends the script with,
\* or -1 when it falls through.  An option that is the last word is given the
\* empty "$2"; the "shift 2" after it fails, which ends the script under "set -e"
RECURSIVE ParseLoop(_, _, _)
ParseLoop(a, region, env) ==
  IF a = << >>
  THEN [exit |-> -1, REGION |-> region, ENVIRONMENT |-> env]
  ELSE CASE Head(a) \in {"--region", "--environment", "--profile"} ->
              IF Len(a) < 2
              THEN [exit |-> 1,
                    REGION |-> IF Head(a) = "--region" THEN "" ELSE region,
                    ENVIRONMENT |-> IF Head(a) = "--environment" THEN "" ELSE env]
              ELSE ParseLoop(SubSeq(a, 3, Len(a)),
                             IF Head(a) = "--region" THEN a[2] ELSE region,
                             IF Head(a) = "--environment" THEN a[2] ELSE env)
         [] Head(a) \in {"--help", "-h"} ->
              [exit |-> 0, REGION |-> region, ENVIRONMENT |-> env]
         [] OTHER ->
              [exit |-> 1, REGION |-> region, ENVIRONMENT |-> env]

\* the status the script ends with before main on the command line a, or -1
\* when main is called: the usage block for no argument, then parse_arguments
ArgumentsExit(a) ==
  LET p == ParseLoop(a, "", "")
      env == IF p.ENVIRONMENT = "" THEN "dev" ELSE p.ENVIRONMENT
  IN  IF a = << >> THEN 1
      ELSE IF p.exit # -1 THEN p.exit
      ELSE IF p.REGION = "" THEN 1
      ELSE IF env \notin VALID_ENVIRONMENTS THEN 1
      ELSE IF ~RegionFormat(p.REGION) THEN 1
      ELSE -1

\* the script up to the call of main
parse_arguments ==
  /\ step = "parse_arguments"
  /\ \E a \in ArgLists :
       IF ArgumentsExit(a) = -1
       THEN /\ step' = MainOrder[1]
            /\ UNCHANGED << exitCode, failedStep, finished >>
       ELSE /\ Exit(ArgumentsExit(a))
            /\ failedStep' = (IF ArgumentsExit(a) = 0 THEN "none" ELSE "parse_arguments")
  /\ UNCHANGED << cdkLog, deployedOk, storageExisted, describeFound, reply, nameKnown,
                  polls, waitElapsed, collStatus, failed >>
  /\ UNCHANGED << lambdaVars, res, stackState, storageVars, postVars >>

\* The commands of a function that can return a non-zero status, as a
\* sequence of statements: Cmd(c) is c run as a simple command, Tol(c) is c
\* on the left of a pipeline ("c | wc -l", the status is that of wc) or of a
\* "||" list, If(c, yes, no) is "if c; then yes; else no; fi" (with yes and no
\* exchanged for "if ! c"), ExitWith(n) is "exit n"
Cmd(c) == [k |-> "cmd", c |-> c]
Tol(c) == [k |-> "tol", c |-> c]
If(c, yes, no) == [k |-> "if", c |-> c, yes |-> yes, no |-> no]
ExitWith(n) == [k |-> "exit", code |-> n]

\* the functions of main that run no "cdk deploy" and no polling loop
Scripted ==
  {"print_banner", "validate_inputs", "check_prerequisites", "check_aws_credentials",
   "setup_environment", "install_dependencies", "bootstrap_cdk", "wait_for_resources",
   "seed_initial_data", "trigger_ingestion", "display_deployment_info"}

\* the body of each of them; echo, export, sleep and the log functions are
\* left out, they return 0
Body(f) ==
  CASE f = "validate_inputs" ->
         << If("[[ ! SUPPORTED_REGIONS =~ REGION ]]",
               << Cmd("read Continue anyway"),
                  If("[[ ! REPLY =~ ^[Yy]$ ]] anyway", << ExitWith(1) >>, << >>) >>,
               << >>),
            If("[[ ENVIRONMENT == prod ]] && [[ -z ALLOWED_IPS ]]",
               << Cmd("read Continue with OPEN ACCESS"),
                  If("[[ ! REPLY =~ ^[Yy]$ ]] open access", << ExitWith(1) >>, << >>) >>,
               << >>) >>
    [] f = "check_prerequisites" ->
         << If("command -v node", << >>, << ExitWith(1) >>),
            If("command -v npm", << >>, << ExitWith(1) >>),
            If("command -v aws", << >>, << ExitWith(1) >>),
            If("command -v cdk", << >>, << ExitWith(1) >>),
            If("command -v python3", << >>, << ExitWith(1) >>) >>
    [] f = "check_aws_credentials" ->
         << If("aws sts get-caller-identity", << >>, << ExitWith(1) >>),
            Cmd("IDENTITY=$(aws sts get-caller-identity)") >>
    [] f = "install_dependencies" ->
         << If("[ -f package.json ]", << Cmd("npm install") >>, << ExitWith(1) >>),
            If("[ -f frontend/requirements.txt ]", << Cmd("pip3 install") >>, << >>) >>
    [] f = "bootstrap_cdk" ->
         << If("aws cloudformation describe-stacks CDKToolkit",
               << >>,
               << Cmd("cdk bootstrap") >>) >>
    [] f = "seed_initial_data" ->
         << If("[ -f cdk-outputs-storage.json ]",
               << Cmd("BUCKET_NAME=$(python3)") >>, << >>),
            If("[ ! -z BUCKET_NAME ]",
               << Tol("aws s3 ls"),
                  If("[ OBJECT_COUNT -eq 0 ]",
                     << If("[ -d frontend/assets/sample-documents ]",
                           << Cmd("aws s3 sync") >>, << >>) >>,
                     << >>) >>,
               << >>) >>
    [] f = "trigger_ingestion" ->
         << If("[ -f cdk-outputs-application.json ]",
               << Cmd("KB_ID=$(python3)") >>, << >>),
            If("[ ! -z KB_ID ]",
               << If("python3 scripts/trigger-ingestion.py", << >>, << >>) >>,
               << >>) >>
    [] f = "display_deployment_info" ->
         << If("[ -f cdk-outputs-frontend.json ]",
               << Cmd("FRONTEND_URL=$(python3)") >>, << >>),
            If("[ -f cdk-outputs-application.json ] info",
               << Cmd("KNOWLEDGE_BASE_ID=$(python3)") >>, << >>),
            If("[ -f cdk-outputs-foundation.json ] info",
               << Cmd("COLLECTION_ENDPOINT=$(python3)") >>, << >>) >>
    [] OTHER -> << >>

\* the conditions that are tests and not commands: a test that returns a
\* non-zero status is false, it has not failed
Tests ==
  {"[[ ! SUPPORTED_REGIONS =~ REGION ]]", "[[ ! REPLY =~ ^[Yy]$ ]] anyway",
   "[[ ENVIRONMENT == prod ]] && [[ -z ALLOWED_IPS ]]",
   "[[ ! REPLY =~ ^[Yy]$ ]] open access", "[ -f package.json ]",
   "[ -f frontend/requirements.txt ]", "[ -f cdk-outputs-storage.json ]",
   "[ ! -z BUCKET_NAME ]", "[ OBJECT_COUNT -eq 0 ]",
   "[ -d frontend/assets/sample-documents ]", "[ -f cdk-outputs-application.json ]",
   "[ ! -z KB_ID ]", "[ -f cdk-outputs-frontend.json ]",
   "[ -f cdk-outputs-application.json ] info", "[ -f cdk-outputs-foundation.json ] info"}

\* the commands and tests of the statements p
RECURSIVE Names(_)
Names(p) ==
  IF Len(p) = 0 THEN {}
  ELSE LET s == Head(p)
       IN  (CASE s.k = "exit" -> {}
              [] s.k = "if"   -> {s.c} \cup Names(s.yes) \cup Names(s.no)
              [] OTHER        -> {s.c})
           \cup Names(Tail(p))

\* bad, the commands and tests that return a non-zero status, is a result the
\* script can see: a variable that was never set is empty, "wc -l" counts 0
\* lines when "aws s3 ls" failed, and $REPLY is empty after a read that failed
Consistent(bad) ==
  /\ ("[ -f cdk-outputs-storage.json ]" \in bad \/ "BUCKET_NAME=$(python3)" \in bad)
       => "[ ! -z BUCKET_NAME ]" \in bad
  /\ ("[ -f cdk-outputs-application.json ]" \in bad \/ "KB_ID=$(python3)" \in bad)
       => "[ ! -z KB_ID ]" \in bad
  /\ "aws s3 ls" \in bad => "[ OBJECT_COUNT -eq 0 ]" \notin bad
  /\ "read Continue anyway" \in bad => "[[ ! REPLY =~ ^[Yy]$ ]] anyway" \notin bad
  /\ "read Continue with OPEN ACCESS" \in bad
       => "[[ ! REPLY =~ ^[Yy]$ ]] open access" \notin bad

\* the commands among F that failed
Failures(F, bad) == (F \cap bad) \ Tests

\* Running the statements p when the commands and tests of bad return a
\* non-zero status: exit is the status the script ends with, or -1 when p
\* runs to its end; failed holds the commands that were run and failed
RECURSIVE Run(_, _)
Run(p, bad) ==
  IF Len(p) = 0 THEN [exit |-> -1, failed |-> {}]
  ELSE LET s == Head(p)
           rest == Run(Tail(p), bad)
       IN  CASE s.k = "exit" -> [exit |-> s.code, failed |-> {}]
             [] s.k = "cmd" ->
                  IF s.c \in bad /\ errexit
                  THEN [exit |-> 1, failed |-> {s.c}]
                  ELSE [exit |-> rest.exit,
                        failed |-> Failures({s.c}, bad) \cup rest.failed]
             [] s.k = "tol" ->
                  [exit |-> rest.exit, failed |-> Failures({s.c}, bad) \cup rest.failed]
             [] s.k = "if" ->
                  LET branch == Run(IF s.c \in bad THEN s.no ELSE s.yes, bad)
                  IN  IF branch.exit # -1
                      THEN [exit |-> branch.exit,
                            failed |-> Failures({s.c}, bad) \cup branch.failed]
                      ELSE [exit |-> rest.exit,
                            failed |-> Failures({s.c}, bad) \cup branch.failed
                                         \cup rest.failed]

\* print_banner .. bootstrap_cdk, wait_for_resources, seed_initial_data,
\* trigger_ingestion, display_deployment_info
RunFunction(f) ==
  /\ step = f
  /\ f \in Scripted
  /\ \E bad \in SUBSET Names(Body(f)) :
       /\ Consistent(bad)
       /\ LET r == Run(Body(f), bad)
          IN  /\ failed' = failed \cup r.failed
              /\ IF r.exit = -1
                 THEN /\ Return(f)
                      /\ UNCHANGED failedStep
                 ELSE /\ Exit(r.exit)
                      /\ failedStep' = f
  /\ UNCHANGED << cdkLog, deployedOk, storageExisted, describeFound, reply, nameKnown,
                  polls, waitElapsed, collStatus >>
  /\ UNCHANGED << lambdaVars, res, stackState, storageVars, postVars >>

\* deploy_core_stack, deploy_foundation_stack, deploy_application_stack,
\* deploy_frontend_stack: "cdk deploy $STACK ..."
CdkDeploy(f) ==
  /\ step = f
  /\ f \in {"deploy_core_stack", "deploy_foundation_stack", "deploy_application_stack",
            "deploy_frontend_stack"}
  /\ cdkLog' = Append(cdkLog, StackOf(f))
  /\ \E ok \in BOOLEAN :
       IF ok
       THEN /\ GoOn(f)
            /\ deployedOk' = deployedOk \cup {StackOf(f)}
            /\ UNCHANGED << failedStep, failed >>
       ELSE /\ Fatal(f)
            /\ failed' = failed \cup {CdkDeployOf(StackOf(f))}
            /\ UNCHANGED deployedOk
  /\ UNCHANGED << storageExisted, describeFound, reply, nameKnown, polls, waitElapsed,
                  collStatus >>
  /\ UNCHANGED << lambdaVars, res, stackState, storageVars, postVars >>

\* answers to 'read -p "Continue with existing storage? (Y/n): " -n 1 -r';
\* "eof" is a read that fails at the end of the input
Replies == {"y", "Y", "n", "N", "", "eof"}

\* What deploy_storage_stack does when describe-stacks succeeded (found) and
\* the prompt was answered r
OnStorageStack(found, r) ==
  IF found
  THEN (IF r = "eof" THEN "abort"
        ELSE IF r \in {"n", "N"} THEN "cancel" ELSE "continue")
  ELSE "deploy"

\* describe-stacks succeeds only on an existing stack, and fails on a missing
\* one or for any other reason
DescribeResults == IF storageExisted THEN {TRUE, FALSE} ELSE {FALSE}

deploy_storage_stack ==
  /\ step = "deploy_storage_stack"
  /\ \E found \in DescribeResults, r \in Replies, ok \in BOOLEAN :
       LET todo == OnStorageStack(found, r) IN
       /\ describeFound' = (IF found THEN "found" ELSE "failed")
       /\ reply' = (IF found THEN r ELSE "-")
       /\ ~found => r = ""           \* no prompt: r is not read
       /\ todo # "deploy" => ok      \* no cdk deploy: ok is not used
       /\ cdkLog' = (IF todo = "deploy" THEN Append(cdkLog, "Storage") ELSE cdkLog)
       /\ failed' = failed
                    \cup (IF found THEN {} ELSE {"aws cloudformation describe-stacks Storage"})
                    \cup (IF todo = "abort" THEN {"read Continue with existing storage"} ELSE {})
                    \cup (IF todo = "deploy" /\ ~ok THEN {"cdk deploy Storage"} ELSE {})
       /\ CASE todo = "abort" ->
                 /\ Fatal("deploy_storage_stack")
                 /\ deployedOk' = (IF errexit THEN deployedOk ELSE deployedOk \cup {"Storage"})
            [] todo = "cancel" ->
                 /\ Exit(0)
                 /\ UNCHANGED << failedStep, deployedOk >>
            [] todo = "continue" ->
                 /\ Return("deploy_storage_stack")
                 /\ deployedOk' = deployedOk \cup {"Storage"}
                 /\ UNCHANGED failedStep
            [] todo = "deploy" ->
                 IF ok
                 THEN /\ Return("deploy_storage_stack")
                      /\ deployedOk' = deployedOk \cup {"Storage"}
                      /\ UNCHANGED failedStep
                 ELSE /\ Fatal("deploy_storage_stack")
                      /\ UNCHANGED deployedOk
  /\ UNCHANGED << storageExisted, nameKnown, polls, waitElapsed, collStatus >>
  /\ UNCHANGED << lambdaVars, res, stackState, storageVars, postVars >>

TIMEOUT == 1320
PollInterval == 30

\* Variant of KeepPolling: "-le" in place of "-lt"
KeepPollingInclusive(el) == el <= TIMEOUT

\* "while [ $ELAPSED -lt $TIMEOUT ]"
KeepPolling(el) == el < TIMEOUT

\* wait_for_foundation_resources up to the loop: COLLECTION_NAME is taken from
\* cdk-outputs-foundation.json; without a name the loop is skipped
ReadCollectionName ==
  /\ step = "wait_for_foundation_resources"
  /\ nameKnown = "-"
  /\ \E o \in {"known", "unknown", "fail"} :
       CASE o = "known" ->
              /\ nameKnown' = "known"
              /\ UNCHANGED << step, exitCode, failedStep, failed, finished >>
         [] o = "unknown" ->
              /\ nameKnown' = "unknown"
              /\ Return("wait_for_foundation_resources")
              /\ UNCHANGED << failedStep, failed >>
         [] o = "fail" ->
              /\ nameKnown' = "unknown"
              /\ Fatal("wait_for_foundation_resources")
              /\ failed' = failed \cup {"COLLECTION_NAME=$(python3)"}
  /\ UNCHANGED << cdkLog, deployedOk, storageExisted, describeFound, reply, polls,
                  waitElapsed, collStatus >>
  /\ UNCHANGED << lambdaVars, res, stackState, storageVars, postVars >>

\* STATUS of one poll; "UNKNOWN" when the aws command fails
CollectionStatuses == {"ACTIVE", "FAILED", "CREATING", "UNKNOWN"}

\* One pass of the loop of wait_for_foundation_resources
PollCollection ==
  /\ step = "wait_for_foundation_resources"
  /\ nameKnown = "known"
  /\ KeepPolling(waitElapsed)
  /\ polls' = polls + 1
  /\ \E st \in CollectionStatuses :
       /\ collStatus' = st
       /\ failed' = failed \cup (IF st = "UNKNOWN"
                                  THEN {"aws opensearchserverless list-collections"}
                                  ELSE {})
       /\ CASE st = "ACTIVE" ->
                 /\ Return("wait_for_foundation_resources")
                 /\ UNCHANGED << waitElapsed, failedStep >>
            [] st = "FAILED" ->
                 /\ Exit(1)
                 /\ failedStep' = "wait_for_foundation_resources"
                 /\ UNCHANGED waitElapsed
            [] OTHER ->
                 /\ waitElapsed' = waitElapsed + PollInterval
                 /\ UNCHANGED << step, exitCode, failedStep, finished >>
  /\ UNCHANGED << cdkLog, deployedOk, storageExisted, describeFound, reply, nameKnown >>
  /\ UNCHANGED << lambdaVars, res, stackState, storageVars, postVars >>

\* "if [ $ELAPSED -ge $TIMEOUT ]": the loop ended without ACTIVE
PollTimeout ==
  /\ step = "wait_for_foundation_resources"
  /\ nameKnown = "known"
  /\ ~KeepPolling(waitElapsed)
  /\ Exit(1)
  /\ failedStep' = "wait_for_foundation_resources"
  /\ UNCHANGED << cdkLog, deployedOk, storageExisted, describeFound, reply, nameKnown,
                  polls, waitElapsed, collStatus, failed >>
  /\ UNCHANGED << lambdaVars, res, stackState, storageVars, postVars >>

InitScript ==
  /\ LambdaIdle
  /\ res = << >>
  /\ stackState = "-"
  /\ StorageIdle
  /\ PostIdle
  /\ step = "parse_arguments"
  /\ exitCode = -1
  /\ cdkLog = << >>
  /\ deployedOk = {}
  /\ storageExisted \in BOOLEAN
  /\ describeFound = "-"
  /\ reply = "-"
  /\ nameKnown = "-"
  /\ polls = 0
  /\ waitElapsed = 0
  /\ collStatus = "-"
  /\ failedStep = "none"
  /\ failed = {}
  /\ finished = {}

NextScript ==
  \/ parse_arguments
  \/ \E f \in {MainOrder[k] : k \in 1..Len(MainOrder)} : RunFunction(f)
  \/ \E f \in {MainOrder[k] : k \in 1..Len(MainOrder)} : CdkDeploy(f)
  \/ deploy_storage_stack
  \/ ReadCollectionName
  \/ PollCollection
  \/ PollTimeout

SpecScript == InitScript /\ [][NextScript]_vars

----------------------------------------------------------------------------
(* The post-deployment Lambda (custom resource PostDeploymentCustomResource): *)
(* on Create the handler calls its setup functions in order and returns       *)
(* SUCCESS, or FAILED when one of them lets an exception out.                 *)

PostVariants == {"old", "app"}

\* the functions the handler calls on Create, in order
PostSteps(v) ==
  IF v = "old"
  THEN << "create_opensearch_index", "verify_knowledge_base", "setup_monitoring_dashboard" >>
  ELSE << "verify_knowledge_base", "setup_basic_monitoring" >>

\* the function called after f, or "return"
AfterPost(v, f) ==
  LET i == CHOOSE k \in 1..Len(PostSteps(v)) : PostSteps(v)[k] = f
  IN  IF i = Len(PostSteps(v)) THEN "return" ELSE PostSteps(v)[i + 1]

\* Whether the body of f can run to its end, can raise, or both.  The module
\* of the old variant does not import os: its verify_knowledge_base and
\* setup_monitoring_dashboard raise NameError at os.environ on every call.
BodyOutcomes(v, f) ==
  IF v = "old" /\ f \in {"verify_knowledge_base", "setup_monitoring_dashboard"}
  THEN {"raises"}
  ELSE {"ok", "raises"}

\* Variant of Propagates: the monitoring setup re-raises too
PropagatesMonitoring(f) ==
  f \in {"verify_knowledge_base", "setup_basic_monitoring", "setup_monitoring_dashboard"}

\* the except clause of f ends with "raise" (verify_knowledge_base) and not
\* with "pass"
Propagates(f) == f = "verify_knowledge_base"

\* handler(event, context) up to the first call
PostEntry ==
  /\ postPc = "handler"
  /\ IF postRequest = "Create"
     THEN /\ postPc' = PostSteps(postVariant)[1]
          /\ UNCHANGED postStatus
     ELSE /\ postPc' = "return"
          /\ postStatus' = "SUCCESS"
  /\ UNCHANGED << postVariant, postRequest, postRun, failedCalls, postIndexExists >>
  /\ UNCHANGED << lambdaVars, res, stackState, storageVars, scriptVars >>

\* one of create_opensearch_index, verify_knowledge_base,
\* setup_monitoring_dashboard / setup_basic_monitoring
PostCall(f) ==
  /\ postPc = f
  /\ \E o \in BodyOutcomes(postVariant, f) :
       /\ failedCalls' = (IF o = "raises" THEN failedCalls \cup {f} ELSE failedCalls)
       /\ postIndexExists' =
            (postIndexExists \/ (f = "create_opensearch_index" /\ o = "ok"))
       /\ IF o = "raises" /\ Propagates(f)
          THEN /\ postPc' = "return"
               /\ postStatus' = "FAILED"
          ELSE /\ postPc' = AfterPost(postVariant, f)
               /\ postStatus' = (IF AfterPost(postVariant, f) = "return"
                                 THEN "SUCCESS" ELSE postStatus)
  /\ UNCHANGED << postVariant, postRequest, postRun >>
  /\ UNCHANGED << lambdaVars, res, stackState, storageVars, scriptVars >>

\* CloudFormation invokes the Lambda again
PostInvoke ==
  /\ postPc = "return"
  /\ postRun < MaxRuns + 1
  /\ \E rt \in RequestTypes : postRequest' = rt
  /\ postRun' = postRun + 1
  /\ postPc' = "handler"
  /\ postStatus' = "-"
  /\ failedCalls' = {}
  /\ UNCHANGED << postVariant, postIndexExists >>
  /\ UNCHANGED << lambdaVars, res, stackState, storageVars, scriptVars >>

InitPost ==
  /\ LambdaIdle
  /\ res = << >>
  /\ stackState = "-"
  /\ StorageIdle
  /\ ScriptIdle
  /\ postVariant \in PostVariants
  /\ postRequest \in RequestTypes
  /\ postRun = 1
  /\ postPc = "handler"
  /\ postStatus = "-"
  /\ failedCalls = {}
  /\ postIndexExists \in BOOLEAN

NextPost ==
  \/ PostEntry
  \/ \E f \in {"create_opensearch_index", "verify_knowledge_base",
               "setup_monitoring_dashboard", "setup_basic_monitoring"} : PostCall(f)
  \/ PostInvoke

SpecPost == InitPost /\ [][NextPost]_vars

----------------------------------------------------------------------------
(* The stack deployment: CloudFormation creates the resources the stack     *)
(* declares, each after the resources it depends on.  The custom resource   *)
(* OpenSearchIndexCreation is created by invoking the Lambda with a Create  *)
(* request and completes with the Status the handler delivers, or fails     *)
(* when no response arrives.                                                *)

\* The constructor of the stack returns.  That of ApplicationStack throws
\* TypeError in "new KnowledgeBaseConstruct" (createKnowledgeBaseRole calls
\* vectorDatabase.getAccessPolicyStatements() on a plain object).
Synthesizes(v) == v = "infra"

\* Resources the MonitoringConstruct declares for its query API, which it
\* creates in staging and prod only; the key and the usage plan are prod only
QueryApiResources(env) ==
  IF env = "dev" THEN << >>
  ELSE << "Monitoring/QueryApi", "Monitoring/QueryApi/query",
          "Monitoring/QueryApi/query/POST" >>
       \o (IF env = "prod"
           THEN << "Monitoring/QueryApi/QueryApiKey", "Monitoring/QueryApi/QueryUsagePlan",
                   "Monitoring/QueryApi/QueryUsagePlan/UsagePlanKey" >>
           ELSE << >>)

\* Resources the constructor of InfrastructureStack declares, itself and by
\* the constructs VectorDatabase, KnowledgeBase and Monitoring, in the order
\* of their declaration; ALERT_EMAIL is not set.  Outputs are no resources,
\* and what aws-cdk-lib adds on its own (the service roles and policies of
\* the Lambdas, permissions, the deployment of the API) is not listed.
Declared(env) ==
  << "KnowledgeBaseRole", "IndexCreationLambdaRole",
     "EncryptionPolicy", "NetworkPolicy", "Collection", "DataAccessPolicy",
     "VectorDatabase/CollectionNameParameter", "VectorDatabase/CollectionIdParameter",
     "VectorDatabase/CollectionEndpointParameter",
     "VectorDatabase/DashboardsEndpointParameter",
     "VectorDatabase/IndexNameParameter", "VectorDatabase/VectorDimensionsParameter",
     "IndexCreationLambda", "IndexCreation",
     "KnowledgeBase/KnowledgeBaseRole", "KnowledgeBase", "DataSource",
     "KnowledgeBase/IngestionLambdaLogGroup", "KnowledgeBase/IngestionLambda",
     "KnowledgeBase/StatusMonitorLambdaLogGroup", "KnowledgeBase/StatusMonitorLambda",
     "KnowledgeBase/S3UploadRule", "KnowledgeBase/IngestionMonitorRule",
     "KnowledgeBase/KnowledgeBaseIdParameter", "KnowledgeBase/DataSourceIdParameter",
     "KnowledgeBase/KnowledgeBaseArnParameter", "KnowledgeBase/EmbeddingModelParameter",
     "Monitoring/AlarmTopic",
     "Monitoring/QueryLambdaLogGroup", "Monitoring/QueryLambda",
     "Monitoring/AnalyticsLambdaLogGroup", "Monitoring/AnalyticsLambda",
     "Monitoring/AnalyticsSchedule" >>
  \o QueryApiResources(env) \o
  << "Monitoring/Dashboard",
     "Monitoring/HighErrorRateAlarm", "Monitoring/SlowQueryAlarm",
     "Monitoring/LambdaErrorAlarm", "Monitoring/LowHealthScoreAlarm",
     "Monitoring/SuccessfulQueriesFilter",
     "Monitoring/DashboardNameParameter", "Monitoring/QueryLambdaArnParameter" >>
  \o (IF env = "dev" THEN << >> ELSE << "Monitoring/QueryApiUrlParameter" >>) \o
  << "FrontendConfigParameter", "FrontendKnowledgeBaseIdParameter",
     "FrontendCollectionEndpointParameter", "FrontendRegionParameter" >>
  \o (IF env = "dev" THEN << >> ELSE << "FrontendApiEndpointParameter" >>) \o
  << "PostDeploymentSetup", "PostDeployment" >>

\* Resources of the template of the stack, for the environment of the deployment
Resources(v) ==
  IF Synthesizes(v)
  THEN {Declared(environment)[k] : k \in 1..Len(Declared(environment))}
  ELSE {}

\* the resources of the construct VectorDatabase
VectorDatabaseResources ==
  {"EncryptionPolicy", "NetworkPolicy", "Collection", "DataAccessPolicy",
   "VectorDatabase/CollectionNameParameter", "VectorDatabase/CollectionIdParameter",
   "VectorDatabase/CollectionEndpointParameter",
   "VectorDatabase/DashboardsEndpointParameter",
   "VectorDatabase/IndexNameParameter", "VectorDatabase/VectorDimensionsParameter"}

\* the resources of the construct KnowledgeBase
KnowledgeBaseResources ==
  {"KnowledgeBase/KnowledgeBaseRole", "KnowledgeBase", "DataSource",
   "KnowledgeBase/IngestionLambdaLogGroup", "KnowledgeBase/IngestionLambda",
   "KnowledgeBase/StatusMonitorLambdaLogGroup", "KnowledgeBase/StatusMonitorLambda",
   "KnowledgeBase/S3UploadRule", "KnowledgeBase/IngestionMonitorRule",
   "KnowledgeBase/KnowledgeBaseIdParameter", "KnowledgeBase/DataSourceIdParameter",
   "KnowledgeBase/KnowledgeBaseArnParameter", "KnowledgeBase/EmbeddingModelParameter"}

\* Variant of KnowledgeBaseNeedsIndex: the addDependency call left out
KnowledgeBaseNeedsNothing(v) == {}

\* "this.knowledgeBase.knowledgeBase.node.addDependency(indexCreationCustomResource)"
KnowledgeBaseNeedsIndex(v) == {"IndexCreation"}

\* Dependencies of resource r: the addDependency calls of the stack and of its
\* constructs, and the resources whose Ref or attribute the properties of r
\* contain (collectionEndpoint holds the Ref of the collection, knowledgeBaseId
\* that of the knowledge base); the role of the knowledge base is the one the
\* KnowledgeBase construct creates for itself.  For r in Resources(v)
DependsOn(v, r) ==
  IF ~Synthesizes(v) THEN {} ELSE
  CASE r = "Collection"       -> {"EncryptionPolicy", "NetworkPolicy"}
    [] r = "DataAccessPolicy" -> {"Collection", "KnowledgeBaseRole"}
    [] r \in {"VectorDatabase/CollectionIdParameter",
              "VectorDatabase/CollectionEndpointParameter",
              "VectorDatabase/DashboardsEndpointParameter",
              "FrontendCollectionEndpointParameter"} -> {"Collection"}
    [] r = "IndexCreationLambda" -> {"IndexCreationLambdaRole", "Collection"}
    [] r = "IndexCreation"    -> {"Collection", "DataAccessPolicy", "IndexCreationLambda"}
    [] r = "KnowledgeBase"    -> {"KnowledgeBase/KnowledgeBaseRole", "Collection",
                                  "DataAccessPolicy"} \cup KnowledgeBaseNeedsIndex(v)
    [] r = "DataSource"       -> {"KnowledgeBase"}
    [] r \in {"KnowledgeBase/IngestionLambda", "KnowledgeBase/StatusMonitorLambda"} ->
         {"KnowledgeBase", "DataSource"}
    [] r = "KnowledgeBase/S3UploadRule" -> {"KnowledgeBase/IngestionLambda"}
    [] r = "KnowledgeBase/IngestionMonitorRule" -> {"KnowledgeBase/StatusMonitorLambda"}
    [] r \in {"KnowledgeBase/KnowledgeBaseIdParameter",
              "KnowledgeBase/KnowledgeBaseArnParameter",
              "FrontendKnowledgeBaseIdParameter",
              "Monitoring/QueryLambda"} -> {"KnowledgeBase"}
    [] r = "KnowledgeBase/DataSourceIdParameter" -> {"DataSource"}
    [] r = "Monitoring/AnalyticsSchedule" -> {"Monitoring/AnalyticsLambda"}
    [] r = "Monitoring/QueryApi/query" -> {"Monitoring/QueryApi"}
    [] r = "Monitoring/QueryApi/query/POST" ->
         {"Monitoring/QueryApi", "Monitoring/QueryApi/query", "Monitoring/QueryLambda"}
    [] r \in {"Monitoring/QueryApi/QueryApiKey", "Monitoring/QueryApi/QueryUsagePlan",
              "Monitoring/QueryApiUrlParameter", "FrontendApiEndpointParameter"} ->
         {"Monitoring/QueryApi"}
    [] r = "Monitoring/QueryApi/QueryUsagePlan/UsagePlanKey" ->
         {"Monitoring/QueryApi/QueryApiKey", "Monitoring/QueryApi/QueryUsagePlan"}
    [] r \in {"Monitoring/Dashboard", "Monitoring/SuccessfulQueriesFilter",
              "Monitoring/QueryLambdaArnParameter"} -> {"Monitoring/QueryLambda"}
    [] r \in {"Monitoring/HighErrorRateAlarm", "Monitoring/SlowQueryAlarm",
              "Monitoring/LowHealthScoreAlarm"} -> {"Monitoring/AlarmTopic"}
    [] r = "Monitoring/LambdaErrorAlarm" ->
         {"Monitoring/AlarmTopic", "Monitoring/QueryLambda"}
    [] r = "Monitoring/DashboardNameParameter" -> {"Monitoring/Dashboard"}
    [] r = "FrontendConfigParameter" -> {"KnowledgeBase", "Collection"}
    [] r = "PostDeploymentSetup" -> {"Collection", "KnowledgeBase"}
    [] r = "PostDeployment"   ->
         {"PostDeploymentSetup"} \cup VectorDatabaseResources \cup KnowledgeBaseResources
    [] OTHER                  -> {}

\* the resources r depends on, directly or through other resources
RECURSIVE Closure(_, _)
Closure(v, S) ==
  LET T == S \cup UNION {DependsOn(v, r) : r \in S}
  IN  IF T = S THEN S ELSE Closure(v, T)

\* The resources whose creation is followed one by one: the knowledge base,
\* the custom resource, and every resource one of the two depends on
Followed(v) == Closure(v, {"KnowledgeBase", "IndexCreation"})

\* The other resources are followed in three groups, by the followed
\* resource their first member waits for: the knowledge base, the
\* collection, or none.  The status of a group stands for every order in
\* which CloudFormation can create its members: NOT_STARTED while none has
\* started, IN_PROGRESS from the first start until all are complete,
\* COMPLETE, and FAILED once one of them failed
GroupOf(v, r) ==
  IF "KnowledgeBase" \in Closure(v, {r}) THEN "(after KnowledgeBase)"
  ELSE IF "Collection" \in Closure(v, {r}) THEN "(after Collection)"
  ELSE "(independent)"

Groups == {"(after KnowledgeBase)", "(after Collection)", "(independent)"}

\* what CloudFormation creates, as the deployment follows it
Units(v) == Followed(v) \cup {GroupOf(v, r) : r \in Resources(v) \ Followed(v)}

\* what has to be complete before u, or the first member of u, can start
StartNeeds(v, u) ==
  CASE u = "(after KnowledgeBase)" -> {"KnowledgeBase"}
    [] u = "(after Collection)"    -> {"Collection"}
    [] u = "(independent)"         -> {}
    [] OTHER                       -> DependsOn(v, u)

\* the groups that hold a resource a member of u depends on: PostDeployment
\* depends on the parameters of the VectorDatabase construct, the alarm on
\* Lambda errors on the alarm topic.  The last member of u can complete only
\* after these have started
FinishNeeds(u) ==
  IF u = "(after KnowledgeBase)" THEN {"(after Collection)", "(independent)"} ELSE {}

\* CloudFormation can start creating u
Ready(u) ==
  /\ res[u] = "NOT_STARTED"
  /\ \A d \in StartNeeds(variant, u) : res[d] = "COMPLETE"

\* what is being created
InProgress == {u \in DOMAIN res : res[u] = "IN_PROGRESS"}

\* CloudFormation starts creating u, a resource or the first resource of a
\* group: anything whose dependencies are complete can start, in any order
\* and next to anything else that is being created
StartResource(u) ==
  /\ stackState = "CREATE_IN_PROGRESS"
  /\ Ready(u)
  /\ res' = [res EXCEPT ![u] = "IN_PROGRESS"]
  /\ IF u = "IndexCreation"
     THEN /\ pc = "idle"
          /\ pc' = "handler"
     ELSE UNCHANGED pc
  /\ UNCHANGED << variant, requestType, run, attempt, elapsed, delay, sleepKind,
                  raised, status, sent, delivered, escaped, indexExists,
                  existedAtStart, lastReq, lastStatus, nHealth, nHead, nPut, nPutOk,
                  nSleeps, definitive, lateRequests, saw403, sawErr, sawPlain, createdBy, attemptReqs, slept, stackState >>
  /\ UNCHANGED << storageVars, scriptVars, postVars >>

StackAfter(u, st) ==
  IF st = "FAILED" THEN "ROLLBACK"
  ELSE IF \A x \in (DOMAIN res) \ {u} : res[x] = "COMPLETE"
       THEN "CREATE_COMPLETE"
       ELSE stackState

\* A resource other than the custom resource finishes or fails; the last
\* member of a group finishes, or one of its members fails
FinishResource(u) ==
  /\ u # "IndexCreation"
  /\ res[u] = "IN_PROGRESS"
  /\ \E st \in {"COMPLETE", "FAILED"} :
       /\ st = "COMPLETE" =>
            \A g \in FinishNeeds(u) \cap DOMAIN res : res[g] \in {"IN_PROGRESS", "COMPLETE"}
       /\ res' = [res EXCEPT ![u] = st]
       /\ stackState' = (IF stackState = "ROLLBACK" THEN "ROLLBACK" ELSE StackAfter(u, st))
  /\ UNCHANGED lambdaVars
  /\ UNCHANGED << storageVars, scriptVars, postVars >>

\* Status CloudFormation gives the custom resource: the delivered Status, or
\* FAILED when no response arrives before its timeout
CustomResourceStatus(d) == IF d = "SUCCESS" THEN "COMPLETE" ELSE "FAILED"

\* The custom resource finishes once the invocation has ended
FinishIndexCreation ==
  /\ res["IndexCreation"] = "IN_PROGRESS"
  /\ pc \in {"done", "init_error"}
  /\ res' = [res EXCEPT !["IndexCreation"] = CustomResourceStatus(delivered)]
  /\ stackState' = (IF stackState = "ROLLBACK" THEN "ROLLBACK"
                    ELSE StackAfter("IndexCreation", CustomResourceStatus(delivered)))
  /\ UNCHANGED lambdaVars
  /\ UNCHANGED << storageVars, scriptVars, postVars >>

DeployIdle ==
  /\ res = << >>
  /\ stackState = "-"
  /\ StorageIdle
  /\ ScriptIdle
  /\ PostIdle

\* a deployment begins with the template of a stack that can be synthesized
InitDeploy ==
  /\ variant \in {v \in Variants : Synthesizes(v)}
  /\ requestType = "Create"
  /\ run = 1
  /\ pc = "idle"
  /\ attempt = 0
  /\ elapsed = 0
  /\ delay = 0
  /\ sleepKind = "-"
  /\ raised = "-"
  /\ status = "FAILED"
  /\ sent = 0
  /\ delivered = "none"
  /\ escaped = FALSE
  /\ indexExists = FALSE
  /\ existedAtStart = FALSE
  /\ lastReq = "-"
  /\ lastStatus = "-"
  /\ nHealth = 0
  /\ nHead = 0
  /\ nPut = 0
  /\ nPutOk = 0
  /\ nSleeps = 0
  /\ definitive = FALSE
  /\ lateRequests = 0
  /\ saw403 = FALSE
  /\ sawErr = FALSE
  /\ sawPlain = FALSE
  /\ createdBy = 0
  /\ attemptReqs = 0
  /\ slept = 0
  /\ environment \in Environments
  /\ enableReplication = FALSE
  /\ stacks = << >>
  /\ bucket = << >>
  /\ uploaded = << >>
  /\ res = [u \in Units(variant) |-> "NOT_STARTED"]
  /\ stackState = "CREATE_IN_PROGRESS"
  /\ ScriptIdle
  /\ PostIdle

NextDeploy ==
  \/ \E u \in DOMAIN res : StartResource(u)
  \/ \E u \in InProgress : FinishResource(u)
  \/ FinishIndexCreation
  \/ HandlerEntry

SpecDeploy == InitDeploy /\ [][NextDeploy]_vars

Init ==
  /\ variant \in Variants
  /\ \E rt \in RequestTypes, exists \in BOOLEAN : Fresh(rt, 1, exists)
  /\ DeployIdle

Next ==
  \/ HandlerEntry
  \/ LoopTop
  \/ HealthCheck
  \/ HeadIndex
  \/ PutIndex
  \/ Sleep
  \/ SendResponse
  \/ Invoke

Spec == Init /\ [][Next]_vars

----------------------------------------------------------------------------
(* Properties *)

InRoutine == pc \in {"loop_top", "health", "head", "put", "sleep"}
Ended == pc \in {"respond", "done"}
\* the invocation is over: the handler returned, or the runtime gave up on
\* importing the module
Over == pc \in {"done", "init_error"}

\* C1: Deadline respected.  While every answer of the collection is a 403 or
\* a plain answer (no error status, no exception), the time consumed by
\* create_opensearch_index never exceeds max_execution_time, and no sleep is
\* started that would end after it.
C1_DeadlineRespected ==
  ~sawErr =>
    /\ elapsed <= max_execution_time
    /\ (pc = "sleep" => elapsed + delay <= max_execution_time)

\* C2: No retry on a permanent error.  Once the creation PUT has been
\* answered with an error status other than 403, the routine has ended in
\* failure: it neither sleeps nor sends another request.
C2_NoRetryOnPermanentError ==
  (lastReq = "put" /\ lastStatus \in {"400", "500"}) =>
    (Ended /\ status = "FAILED" /\ raised = "ValueError")

\* C3: Exactly one terminal result.  send_response is called once, at the
\* end of every invocation and not before, with Status SUCCESS or FAILED,
\* and no exception leaves the handler.
C3_ExactlyOneResponse ==
  /\ sent = (IF Over THEN 1 ELSE 0)
  /\ (pc \in {"respond", "done"} => status \in {"SUCCESS", "FAILED"})
  /\ ~escaped

\* C4: Idempotence.  When the index exists at the start of a Create
\* invocation and the collection neither denies nor fails a request, the
\* routine returns success after exactly one HEAD on the index and no PUT;
\* and whenever the HEAD on the index is answered 200 the routine returns
\* success at once.
C4_Idempotent ==
  /\ (requestType = "Create" /\ existedAtStart /\ ~saw403 /\ ~sawErr
        /\ (pc = "init_error" \/ (lastReq # "-" /\ Ended)))
       => (status = "SUCCESS" /\ raised = "none" /\ nHead = 1 /\ nPut = 0)
  /\ (lastReq = "head" /\ lastStatus = "200") => (Ended /\ status = "SUCCESS")

\* C5: Bounded retries.  No invocation makes more than max_retries attempts
\* (6 in infra, 5 in app), and an invocation whose every request was
\* answered 403 ends with the handler reporting FAILED.
C5_BoundedRetries ==
  /\ attempt + 1 <= (IF variant = "infra" THEN 6 ELSE 5)
  /\ nSleeps = attempt
  /\ (Ended /\ requestType = "Create" /\ ~sawErr /\ ~sawPlain) => status = "FAILED"
  /\ (Over /\ requestType = "Create" /\ ~sawErr /\ ~sawPlain)
       => (sent = 1 /\ status = "FAILED" /\ delivered # "SUCCESS")

\* C6: Safety margin kept before every sleep.  When time.sleep(delay) is
\* about to be called, elapsed + delay + 120 s is within the 780 s budget.
C6_SafetyMarginBeforeSleep ==
  pc = "sleep" => elapsed + delay + safety_margin <= max_execution_time

\* C7: Abort instead of sleeping when the budget is too small.  The routine
\* calls time.sleep only when the remaining budget minus the 120 s margin is
\* at least the minimum delay of the branch (30 s after a 403, 15 s after an
\* exception).
C7_AbortWhenBudgetTooSmall ==
  pc = "sleep" =>
    time_remaining(elapsed) - safety_margin >= MinDelay(sleepKind)

C9_DeniedHeadNoPut ==
  (lastReq = "head" /\ lastStatus = "403") => pc \in {"sleep", "loop_top", "respond", "done"}

\* C10: At most one index is created and nothing is sent after a definitive
\* answer.  At most one PUT of an invocation is answered 200/201, and after
\* an index HEAD answered 200 or a PUT answered 200/201 the routine has
\* ended without a further request.
C10_AtMostOneCreate ==
  /\ nPutOk <= 1
  /\ lateRequests = 0
  /\ definitive => (Ended /\ raised = "none")

\* the index is created on a retry
C10_Witness ==
  /\ pc = "done"
  /\ nPutOk = 1
  /\ attempt > 0
  /\ lateRequests = 0

nRequests == nHealth + nHead + nPut

\* C11: Bounded number of network calls.  One attempt sends at most 2
\* requests in infra and 3 in app, and one invocation at most 12 in infra
\* and 15 in app.
C11_BoundedRequests ==
  /\ attemptReqs <= (IF variant = "infra" THEN 2 ELSE 3)
  /\ nRequests <= (IF variant = "infra" THEN 12 ELSE 15)

\* app sends 3 requests in each of its 5 attempts
C11_Witness ==
  /\ variant = "app"
  /\ pc = "done"
  /\ nRequests = 15
  /\ attemptReqs = 3

\* the delay base_delay + i * step written with the numbers of the claim
Scheduled403(v, i) == IF v = "infra" THEN 60 + 30 * i ELSE 90 + 45 * i

\* C12: Linear backoff schedule.  The delay slept after attempt i ended in a
\* 403 is 60 + 30 i seconds in infra and 90 + 45 i in app whenever at least
\* that delay plus 120 s remain, and it is larger than the delay scheduled
\* for the attempt before.
C12_LinearBackoff ==
  (pc = "sleep" /\ sleepKind = "403"
     /\ time_remaining(elapsed) >= Scheduled403(variant, attempt) + 120)
    => /\ delay = Scheduled403(variant, attempt)
       /\ attempt > 0 => delay > Scheduled403(variant, attempt - 1)

\* the fourth 403 of app is followed by the unreduced delay of 225 s
C12_Witness ==
  /\ variant = "app"
  /\ pc = "sleep"
  /\ sleepKind = "403"
  /\ attempt = 3
  /\ delay = 225

\* sum of the delays scheduled after attempts 0 .. k-1
RECURSIVE ScheduledSum(_, _)
ScheduledSum(v, k) == IF k = 0 THEN 0 ELSE ScheduledSum(v, k - 1) + Scheduled403(v, k - 1)

\* the index was missing, every failed attempt was a denial, and the creation
\* PUT of attempt k = attempt was accepted
RecoveredAfterDenials ==
  /\ requestType = "Create"
  /\ ~existedAtStart
  /\ nPutOk = 1
  /\ ~sawErr

\* C13 as stated: Recovery after transient denials.  When the index is not
\* found, the first k attempts are denied and the PUT of the next one is
\* accepted, the routine returns success, the handler reports SUCCESS and the
\* time slept equals the sum of the first k scheduled delays.
C13_SleptEqualsSchedule ==
  RecoveredAfterDenials =>
    /\ Ended
    /\ status = "SUCCESS"
    /\ raised = "none"
    /\ slept = ScheduledSum(variant, attempt)

\* C13 amended: Recovery after transient denials.  The routine returns
\* success and the handler reports SUCCESS; the time slept is at most the sum
\* of the first k scheduled delays, and equals it whenever the time spent in
\* requests plus that sum is at most 780 - 120 seconds.
C13_SleptWithinSchedule ==
  RecoveredAfterDenials =>
    /\ Ended
    /\ status = "SUCCESS"
    /\ raised = "none"
    /\ slept <= ScheduledSum(variant, attempt)
    /\ (elapsed - slept) + ScheduledSum(variant, attempt) <= 780 - 120
         => slept = ScheduledSum(variant, attempt)

\* app: two denied attempts, slow requests, and the third PUT is accepted
C13_Witness ==
  /\ RecoveredAfterDenials
  /\ variant = "app"
  /\ pc = "done"
  /\ attempt = 2
  /\ slept = 225
  /\ elapsed > slept

\* C14: An unexpected HTTP status on a check request is a permanent
\* failure.  When the health check or the index HEAD is answered 500, the
\* invocation ends in failure at once: no creation PUT follows and nothing
\* is retried.
C14_UnexpectedCheckStatusIsPermanent ==
  (lastReq \in {"health", "head"} /\ lastStatus = "500")
    => /\ Ended
       /\ status = "FAILED"

\* C15: The existence check always comes first.  In every attempt of every
\* invocation the creation PUT is sent only after the index HEAD of the same
\* attempt was answered with a status other than 200; no attempt sends a PUT
\* without the index HEAD before it.
C15_ExistenceCheckFirst ==
  /\ pc = "put" => /\ lastReq = "head"
                   /\ lastStatus # "200"
                   /\ attemptReqs = (IF variant = "infra" THEN 1 ELSE 2)
  /\ (lastReq = "put" /\ attemptReqs > 0)
       => attemptReqs = (IF variant = "infra" THEN 2 ELSE 3)
  /\ nPut <= nHead

\* a re-run after a failed invocation is about to send the PUT of a retry
C15_Witness ==
  /\ run = 2
  /\ pc = "put"
  /\ attempt = 1
  /\ nHead = 2
  /\ nPut = 1
  /\ ~indexExists

\* every field of the response the handler sends, those of Data included
ResponseFields == response_body \cup response_data(requestType, raised)

\* C16: The result handed to the caller carries the full attempt history.
\* The response sent for a Create request holds, besides the status, the list
\* of the attempts made and the total elapsed time.
C16_ResponseCarriesHistory ==
  (pc = "done" /\ requestType = "Create")
    => /\ "Status" \in ResponseFields
       /\ "attempts" \in ResponseFields
       /\ "totalElapsedSeconds" \in ResponseFields

PersistentBuckets == {"DocumentsBucket", "BackupBucket"}

\* C17: Persistent storage survives teardown.  getRemovalPolicy gives RETAIN
\* for 'storage' in every environment and DESTROY only for 'infrastructure'
\* in dev; the documents and backup buckets are declared with the 'storage'
\* policy and autoDeleteObjects false, so that once created they stay, with
\* every object put into them, whatever stack is destroyed.
C17_StorageSurvivesTeardown ==
  /\ getRemovalPolicy(environment, "storage") = "RETAIN"
  /\ \A t \in ResourceTypes :
       getRemovalPolicy(environment, t) = "DESTROY"
         <=> (t = "infrastructure" /\ environment = "dev")
  /\ \A b \in PersistentBuckets :
       BucketProps(environment, b) =
         [removalPolicy |-> getRemovalPolicy(environment, "storage"),
          autoDeleteObjects |-> FALSE]
  /\ \A b \in PersistentBuckets \cap Buckets("Storage", environment, enableReplication) :
       stacks["Storage"] # "NOT_DEPLOYED"
         => /\ bucket[b].state = "present"
            /\ bucket[b].objects = uploaded[b]

\* prod with replication: the storage stack was destroyed; the access logs
\* bucket is gone with its objects, the documents and backup buckets still
\* hold theirs, and the frontend stack was never deployed
C17_Witness ==
  /\ environment = "prod"
  /\ enableReplication
  /\ stacks["Storage"] = "DELETED"
  /\ stacks["Frontend"] = "NOT_DEPLOYED"
  /\ bucket["AccessLogsBucket"].state = "deleted"
  /\ uploaded["AccessLogsBucket"] > 0
  /\ bucket["DocumentsBucket"].state = "present"
  /\ bucket["DocumentsBucket"].objects = 2
  /\ bucket["BackupBucket"].state = "present"
  /\ bucket["BackupBucket"].objects > 0

\* C18: SUCCESS on Create implies the index exists.  The status the handler
\* sends for a Create request is SUCCESS exactly when, in this invocation, an
\* index HEAD was answered 200 or a creation PUT was answered 200 or 201, and
\* FAILED in every other case.
C18_SuccessMeansIndexExists ==
  (Ended /\ requestType = "Create")
    => /\ status = "SUCCESS" <=> definitive
       /\ status = "SUCCESS" => indexExists
       /\ status \in {"SUCCESS", "FAILED"}
       /\ delivered \in {"none", status}

\* app: denied once, then the PUT of the second attempt created the index
\* and SUCCESS reached CloudFormation
C18_Witness ==
  /\ variant = "app"
  /\ requestType = "Create"
  /\ pc = "done"
  /\ delivered = "SUCCESS"
  /\ lastReq = "put"
  /\ attempt = 1
  /\ ~existedAtStart

\* position of the first request of an attempt
FirstRequest == "health"

\* an attempt begins with less than 120 s of the budget left
AttemptBeginsLate ==
  /\ pc = "loop_top"
  /\ attempt < max_retries
  /\ time_remaining(elapsed) < 120

\* C19: Deadline check before each attempt.  An attempt sends its first
\* request only with at least 120 s of the 780 s budget left; an attempt that
\* begins with less sends no request: the routine raises the
\* timeout-protection error there, no further attempt is made and the handler
\* reports FAILED.
C19_DeadlineCheckBeforeAttempt ==
  /\ []((pc = FirstRequest /\ attemptReqs = 0)
          => time_remaining(elapsed) >= 120)
  /\ []((pc \in {"health", "head", "put"} /\ pc # FirstRequest)
          => attemptReqs > 0)
  /\ [][AttemptBeginsLate
          => /\ pc' = "respond"
             /\ raised' = "ValueError"
             /\ status' = "FAILED"
             /\ nRequests' = nRequests
             /\ attempt' = attempt]_vars
  /\ [][(pc = "respond" /\ raised = "ValueError")
          => /\ pc' = "done"
             /\ delivered' \in {"none", "FAILED"}
             /\ nRequests' = nRequests]_vars

\* the fifth attempt began 90 s before the end of the budget, sent nothing,
\* and FAILED was delivered
C19_Witness ==
  /\ pc = "done"
  /\ delivered = "FAILED"
  /\ raised = "ValueError"
  /\ attempt = 4
  /\ attemptReqs = 0
  /\ time_remaining(elapsed) = 90

\* the Status the claim gives for a Create, Delete or Update request, given
\* how index creation ended
CommonStatus(rt, outcome) ==
  IF rt = "Create"
  THEN (IF outcome = "none" THEN "SUCCESS" ELSE "FAILED")
  ELSE "SUCCESS"

\* C20: The two handler variants disagree on unknown request types.  For a
\* RequestType other than Create, Delete and Update infra sends FAILED and app
\* sends SUCCESS; for Create, Delete and Update the Status is the same
\* function of the outcome of index creation in both variants.
C20_VariantsDifferOnUnknownType ==
  /\ (Over /\ requestType = "Other")
       => /\ sent = 1
          /\ status = (IF variant = "infra" THEN "FAILED" ELSE "SUCCESS")
          /\ nRequests = 0
  /\ (Over /\ requestType # "Other")
       => /\ sent = 1
          /\ status = CommonStatus(requestType, raised)
  /\ Ended => delivered \in {"none", status}

\* C21: Requests other than Create leave the collection untouched.  For a
\* Delete, an Update or an unknown request type the handler sends no request
\* to the collection and never sleeps; it goes from its entry straight to
\* the single response, and the index is as it was, checked or not.
C21_NonCreateTouchesNothing ==
  requestType # "Create"
    => /\ pc \in {"handler", "respond", "done", "init_error"}
       /\ nRequests = 0
       /\ nSleeps = 0
       /\ slept = 0
       /\ elapsed = 0
       /\ indexExists = existedAtStart
       /\ sent = (IF pc = "done" THEN 1 ELSE 0)

\* a redeployment delivered as Update answered SUCCESS although the index is
\* missing
C21_Witness ==
  /\ run = 2
  /\ requestType = "Update"
  /\ pc = "done"
  /\ sent = 1
  /\ delivered = "SUCCESS"
  /\ ~indexExists

\* base_delay // 2 + i * inc written with the numbers of the claim
ScheduledExc(v, i) == IF v = "infra" THEN 30 + 15 * i ELSE 45 + 30 * i

\* the last request of the current attempt raised a transport exception
TransportErrorNow == lastStatus = "exc" /\ attemptReqs > 0

\* C22: Transport-level errors are retried with a shorter backoff.  After a
\* request raised on an attempt i before the last, the routine sleeps
\* 30 + 15 i seconds (infra) or 45 + 30 i (app), or max(15, time_remaining()
\* - 120) when less than that plus 120 s remain, and then starts attempt
\* i + 1; on the last attempt the exception propagates and the handler
\* reports FAILED.
C22_TransportErrorBackoff ==
  /\ [](TransportErrorNow =>
          IF attempt < max_retries - 1
          THEN /\ pc = "sleep"
               /\ sleepKind = "exc"
               /\ delay = (IF time_remaining(elapsed)
                                >= ScheduledExc(variant, attempt) + 120
                           THEN ScheduledExc(variant, attempt)
                           ELSE Max(15, time_remaining(elapsed) - 120))
          ELSE /\ Ended
               /\ raised = "Exception"
               /\ status = "FAILED"
               /\ delivered \in {"none", "FAILED"})
  /\ [][(pc = "sleep" /\ sleepKind = "exc")
          => /\ pc' = "loop_top"
             /\ attempt' = attempt + 1
             /\ elapsed' = elapsed + delay]_vars

\* app: the PUT of the second attempt timed out and 75 s of sleep follow
C22_Witness ==
  /\ variant = "app"
  /\ pc = "sleep"
  /\ sleepKind = "exc"
  /\ lastReq = "put"
  /\ lastStatus = "exc"
  /\ attempt = 1
  /\ delay = 75

\* C23: The last attempt never sleeps.  time.sleep is called only on an
\* attempt before the one with index max_retries - 1, so an invocation sleeps
\* at most 5 times in infra and 4 times in app, and the loop variable never
\* passes max_retries - 1: the loop is left by return or raise, never by
\* running off its end.
C23_LastAttemptNeverSleeps ==
  /\ pc = "sleep" => attempt < max_retries - 1
  /\ nSleeps <= (IF variant = "infra" THEN 5 ELSE 4)
  /\ nSleeps = attempt
  /\ attempt <= max_retries - 1
  /\ (Ended /\ CallsCreate(requestType)) => raised \in {"none", "ValueError", "Exception"}
  /\ (attempt = max_retries - 1 /\ attemptReqs > 0
        /\ lastStatus \in {"403", "400", "500", "exc"} /\ pc # "put")
       => Ended

\* app: denied on all five attempts, four sleeps, and the fifth 403 was the
\* last thing the routine did
C23_Witness ==
  /\ variant = "app"
  /\ Ended
  /\ attempt = 4
  /\ nSleeps = 4
  /\ lastStatus = "403"
  /\ raised = "ValueError"

\* network calls have been instantaneous and every answer was a 403
NominalDenials ==
  /\ requestType = "Create"
  /\ elapsed = slept
  /\ ~sawErr
  /\ ~sawPlain

\* C24: The nominal schedule fits the budget.  With instantaneous network
\* calls and 403 on every request no delay is reduced and the timeout
\* protection never fires: infra sleeps 60, 90, 120, 150, 180 s (600 s) and
\* app 90, 135, 180, 225 s (630 s), every attempt is performed, and the last
\* one starts with at least 120 s left.
C24_NominalScheduleFits ==
  NominalDenials =>
    /\ pc = "sleep" => delay = Scheduled403(variant, attempt)
    /\ slept = ScheduledSum(variant, attempt)
    /\ pc \in {"health", "head", "put"} => time_remaining(elapsed) >= 120
    /\ (pc = "init_error" \/ (Ended /\ saw403))
         => /\ attempt = (IF variant = "infra" THEN 6 ELSE 5) - 1
            /\ attemptReqs > 0
            /\ lastStatus = "403"
            /\ slept = (IF variant = "infra" THEN 600 ELSE 630)
            /\ time_remaining(elapsed) >= 120

\* the stacks "cdk deploy" was run on
Deployed == {cdkLog[i] : i \in DOMAIN cdkLog}

\* position of a stack in the order Core, Storage, Foundation, Application, Frontend
Position(stack) == CHOOSE k \in 1..5 : StackOrder[k] = stack

\* cdk deploy was run on the stacks in that order, each after every stack
\* before it had been deployed, or kept, successfully
DeployedInOrder ==
  /\ \A i, j \in DOMAIN cdkLog : i < j => Position(cdkLog[i]) < Position(cdkLog[j])
  /\ \A i \in DOMAIN cdkLog : \A k \in 1..5 :
       k < Position(cdkLog[i]) => StackOrder[k] \in deployedOk

\* the CDK app declares the chain storage on core, foundation on storage,
\* application on foundation, frontend on application
SameChainInApp ==
  /\ StackDependencies("Core") = {}
  /\ \A k \in 2..5 : StackDependencies(StackOrder[k]) = {StackOrder[k - 1]}

\* position of a function in the calls of main; parse_arguments runs before main
PositionInMain(f) ==
  IF f = "parse_arguments" THEN 0
  ELSE CHOOSE k \in 1..Len(MainOrder) : MainOrder[k] = f

\* the function that runs "cdk deploy" on a stack
DeployFunction(stack) ==
  CHOOSE f \in {MainOrder[k] : k \in 1..Len(MainOrder)} :
    /\ f \in {"deploy_core_stack", "deploy_storage_stack", "deploy_foundation_stack",
              "deploy_application_stack", "deploy_frontend_stack"}
    /\ StackOf(f) = stack

\* the commands whose failure is not the failure of a step: the condition of
\* an if that has no exit in its branches (lines 293, 347, 534), the left
\* side of a pipeline (line 495) and of a "||" list (lines 419-423)
ToleratedCommands ==
  {"aws cloudformation describe-stacks CDKToolkit",
   "aws cloudformation describe-stacks Storage",
   "aws opensearchserverless list-collections",
   "aws s3 ls",
   "python3 scripts/trigger-ingestion.py"}

\* C25: Stacks are deployed strictly in order Core, Storage, Foundation,
\* Application, Frontend.  cdk deploy is run on a stack only after every
\* function main calls before it has returned and every stack before it was
\* deployed (or, for an existing storage stack, kept); a step that fails, by a
\* command that fails where "set -e" applies or by an "exit 1", ends the script
\* with a non-zero status and no later stack is deployed; a script that ends
\* with status 0 without being cancelled has run through all five stacks; the
\* CDK app declares the same chain of dependencies.
C25_StacksDeployedInOrder ==
  /\ DeployedInOrder
  /\ \A s \in Deployed : \A k \in 1..Len(MainOrder) :
       k < PositionInMain(DeployFunction(s)) => MainOrder[k] \in finished
  /\ SameChainInApp
  /\ failed \ ToleratedCommands # {} => (step = "exited" /\ exitCode = 1)
  /\ failedStep # "none"
       => /\ step = "exited" /\ exitCode = 1
          /\ failedStep \notin finished
          /\ \A s \in Deployed :
               PositionInMain(DeployFunction(s)) <= PositionInMain(failedStep)
  /\ (step = "exited" /\ exitCode = 1) => failedStep # "none"
  /\ (step = "exited" /\ exitCode = 0 /\ reply \notin {"n", "N"} /\ cdkLog # << >>)
       => Deployed \cup {"Storage"} = {StackOrder[k] : k \in 1..5}

\* the two describe-stacks commands failed in their conditions and the script
\* went on; cdk deploy of the foundation stack then failed after core and
\* storage: the script ended with a non-zero status before the application stack
C25_Witness ==
  /\ step = "exited"
  /\ exitCode = 1
  /\ failedStep = "deploy_foundation_stack"
  /\ failed = {"aws cloudformation describe-stacks CDKToolkit",
               "aws cloudformation describe-stacks Storage",
               "cdk deploy Foundation"}
  /\ cdkLog = << "Core", "Storage", "Foundation" >>
  /\ deployedOk = {"Core", "Storage"}

\* C26: Waiting for the collection terminates and gates the next stack.  With
\* the collection name known the status is polled at most 44 times, 30 s
\* apart (1320 s); the application stack is deployed only after a poll
\* returned ACTIVE; a poll returning FAILED, or 1320 s without ACTIVE, ends
\* the script with status 1.
C26_CollectionWaitGates ==
  /\ polls <= 44
  /\ waitElapsed <= 1320
  /\ waitElapsed = 30 * (polls - (IF collStatus \in {"ACTIVE", "FAILED"} THEN 1 ELSE 0))
  /\ (nameKnown = "known" /\ step \notin {"wait_for_foundation_resources", "exited"})
       => collStatus = "ACTIVE"
  /\ (nameKnown = "known" /\ "Application" \in Deployed) => collStatus = "ACTIVE"
  /\ collStatus = "FAILED" => (step = "exited" /\ exitCode = 1)
  /\ (nameKnown = "known" /\ waitElapsed = 1320)
       => /\ step \in {"wait_for_foundation_resources", "exited"}
          /\ step = "exited" => exitCode = 1
          /\ "Application" \notin Deployed

\* 44 polls without ACTIVE: the script gave up with status 1
C26_Witness ==
  /\ step = "exited"
  /\ exitCode = 1
  /\ polls = 44
  /\ waitElapsed = 1320
  /\ collStatus = "CREATING"
  /\ "Application" \notin Deployed

\* C27: An existing storage stack is never redeployed.  When the
\* storage stack exists, deploy_storage_stack runs no cdk deploy on it and
\* either continues or exits 0; cdk deploy of the storage stack runs only when
\* the stack does not exist.
C27_ExistingStorageNeverRedeployed ==
  (storageExisted /\ describeFound # "-")
    => /\ "Storage" \notin Deployed
       /\ failedStep # "deploy_storage_stack"
       /\ step = "exited" => (exitCode = 0 \/ "Foundation" \in Deployed)

\* the best-effort functions of the post-deployment handlers
BestEffort == {"create_opensearch_index", "setup_monitoring_dashboard", "setup_basic_monitoring"}

\* C28: Best-effort steps never fail the post-deployment setup.  An exception
\* in index creation or in the monitoring setup is swallowed: the handler
\* goes on and the Status it returns is FAILED exactly when the request is a
\* Create and verify_knowledge_base raised, and SUCCESS otherwise; a request
\* other than Create calls none of the functions.
C28_BestEffortStepsSwallowed ==
  /\ postPc = "return"
       => /\ postStatus = "FAILED"
               <=> (postRequest = "Create" /\ "verify_knowledge_base" \in failedCalls)
          /\ postStatus \in {"SUCCESS", "FAILED"}
  /\ postRequest # "Create" => failedCalls = {}
  /\ (postPc \in BestEffort /\ postPc # PostSteps(postVariant)[1])
       => "verify_knowledge_base" \notin failedCalls
  /\ postPc \in {"-", "handler", "return"} \cup BestEffort \cup {"verify_knowledge_base"}

\* app: the monitoring setup raised after the knowledge base was verified,
\* and the handler returned SUCCESS
C28_Witness ==
  /\ postVariant = "app"
  /\ postRequest = "Create"
  /\ postPc = "return"
  /\ postStatus = "SUCCESS"
  /\ failedCalls = {"setup_basic_monitoring"}

====
